---- MODULE Spec2Model ----
(***************************************************************************)
(* Model of the submission ingestion pipeline of the grading backend:      *)
(* POST /api/submissions (routes/submissions.js), its helpers              *)
(* extractTextFromFile, performAICheck and performPlagiarismCheck, the     *)
(* Submission schema, and the two external collaborators it drives         *)
(* (object storage and the persistence store).                             *)
(*                                                                         *)
(* One handler invocation is modelled as a sequence of steps, one per      *)
(* block of the handler between two awaits.  The outcome of every external *)
(* call (storage, text backends, classifier, scoring call, database) is a  *)
(* nondeterministic choice among the outcomes the call can have.  A        *)
(* behaviour follows one submit call from the request to the response.     *)
(***************************************************************************)
EXTENDS Integers, Sequences, FiniteSets, TLC

----------------------------------------------------------------------------
(* Bounds of the model                                                     *)

MaxPad   == 1          \* leading / trailing whitespace of an extracted text

(* Program constants                                                       *)

RelevanceMinLen  == 20 \* submissions.js:202
ScoringMinLen    == 50 \* submissions.js:228
AICheckMinLen    == 50 \* submissions.js:64
PlagiarismMinLen == 50 \* submissions.js:123
PlagiarismBase   == 70 \* submissions.js:137

----------------------------------------------------------------------------
(* Values                                                                  *)

None == "none"         \* null / undefined

Users       == {"u1", "u2"}
AssignmentIds == {"a1", "a2"}

(* A text is described by its leading whitespace, its core (first to last  *)
(* non-whitespace character) and its trailing whitespace, all as lengths.  *)
TextCores == {0, 10, RelevanceMinLen - 1, RelevanceMinLen,
              ScoringMinLen - 1, ScoringMinLen}
Texts ==
    { [lead |-> l, core |-> c, trail |-> t] :
        l \in {0, MaxPad}, c \in TextCores, t \in {0, MaxPad} }
    \ { x \in [lead : {0, MaxPad}, core : TextCores, trail : {0, MaxPad}] :
          \/ (x.lead > 0 /\ x.trail > 0)
          \/ (x.core = 0 /\ x.trail > 0) }

EmptyText == [lead |-> 0, core |-> 0, trail |-> 0]

\* String.prototype.length
Length(t) == t.lead + t.core + t.trail

\* String.prototype.trim: drops leading and trailing whitespace
Trim(t) == [lead |-> 0, core |-> t.core, trail |-> 0]

\* truthiness of a string: non-empty
Truthy(t) == Length(t) > 0

(* Error values: name and message; a message is a sequence of segments so  *)
(* that startsWith is a prefix test.                                       *)
MsgFileRequired == <<"Submission file is required.">>
MsgInvalidId    == <<"Invalid or missing assignment ID">>
MsgNotFound     == <<"Assignment not found">>
MsgUploadFailed == <<"Failed to upload file to storage.">>
MsgNoSecureUrl  == <<"Cloudinary upload succeeded but did not return a secure URL.">>
MsgRejected     == <<"Submission rejected:",
                     "The content does not seem relevant to the assignment topic.">>
MsgExternal     == <<"database failure">>
MsgDestroyFailed == <<"storage delete failure">>

Err(n, m) == [name |-> n, message |-> m]
NoError   == [name |-> None, message |-> <<>>]

StartsWith(m, p) == Len(m) >= Len(p) /\ SubSeq(m, 1, Len(p)) = p

----------------------------------------------------------------------------
(* Uploaded files                                                          *)

ImageExts == {"jpg", "jpeg", "png", "gif", "bmp", "tiff", "webp"}
PlainExts == {"txt", "md", "csv", ""}

(* A file: its lowercased extension, whether its bytes are well formed for *)
(* the structured backends, and the text its bytes hold.                   *)
LongText == [lead |-> 0, core |-> ScoringMinLen, trail |-> 0]

Files ==
    { [ext |-> "txt", wellFormed |-> TRUE, text |-> t] : t \in Texts }
    \cup { [ext |-> "pdf", wellFormed |-> TRUE,  text |-> LongText],
           [ext |-> "pdf", wellFormed |-> FALSE, text |-> EmptyText],
           [ext |-> "png", wellFormed |-> TRUE,  text |-> EmptyText] }

NoFile == [ext |-> "", wellFormed |-> TRUE, text |-> EmptyText]

(* extractTextFromFile: [ok, text]; ok = FALSE when it throws.             *)
extractTextFromFile(hasBuffer, file) ==
    IF ~hasBuffer THEN [ok |-> FALSE, text |-> EmptyText]
    ELSE IF file.ext \in {"pdf", "docx"} THEN
        IF file.wellFormed THEN [ok |-> TRUE, text |-> file.text]
        ELSE [ok |-> FALSE, text |-> EmptyText]
    ELSE IF file.ext \in PlainExts THEN [ok |-> TRUE, text |-> file.text]
    ELSE IF file.ext \in ImageExts THEN [ok |-> FALSE, text |-> EmptyText]
    ELSE [ok |-> TRUE, text |-> file.text]

----------------------------------------------------------------------------
(* Relevance classifier                                                    *)

RelevanceTokens == {"HIGHLY_RELEVANT", "SOMEWHAT_RELEVANT", "OFF_TOPIC"}

(* A reply text: a word, whether it is surrounded by whitespace and        *)
(* whether it is written in upper case.                                    *)
ReplyTexts ==
    { [word |-> w, pad |-> p, upper |-> u] :
        w \in RelevanceTokens \cup {"UNSURE"}, p \in BOOLEAN, u \in BOOLEAN }
    \ { x \in [word : RelevanceTokens \cup {"UNSURE"}, pad : BOOLEAN, upper : BOOLEAN] :
          x.pad /\ ~x.upper }

NoReplyText == [word |-> "", pad |-> FALSE, upper |-> TRUE]
Literal(w)  == [word |-> w, pad |-> FALSE, upper |-> TRUE]

TrimReply(r)   == [r EXCEPT !.pad = FALSE]
ToUpperCase(r) == [r EXCEPT !.upper = TRUE]

(* Outcomes of openai.chat.completions.create for the relevance prompt:    *)
(* the call throws, the completion has no content, or it has a text.       *)
ClassifierOutcomes ==
    { [kind |-> "throw", text |-> NoReplyText],
      [kind |-> "nocontent", text |-> NoReplyText] }
    \cup { [kind |-> "text", text |-> r] : r \in ReplyTexts }

NotCalled == [kind |-> "notcalled", text |-> NoReplyText]

\* a fail-closed gate: a failed call rejects
RelevanceOf_FailClosed(outcome) ==
    IF outcome.kind = "throw" THEN "OFF_TOPIC"
    ELSE IF outcome.kind # "text" THEN "SOMEWHAT_RELEVANT"
    ELSE LET resultText == ToUpperCase(TrimReply(outcome.text))
         IN  IF resultText = Literal("OFF_TOPIC") THEN "OFF_TOPIC"
             ELSE IF resultText = Literal("HIGHLY_RELEVANT") THEN "HIGHLY_RELEVANT"
             ELSE "SOMEWHAT_RELEVANT"

(* The verdict computed from an outcome, starting from the default.        *)
RelevanceOf(outcome) ==
    IF outcome.kind # "text" THEN "SOMEWHAT_RELEVANT"
    ELSE LET resultText == ToUpperCase(TrimReply(outcome.text))
         IN  IF resultText = Literal("OFF_TOPIC") THEN "OFF_TOPIC"
             ELSE IF resultText = Literal("HIGHLY_RELEVANT") THEN "HIGHLY_RELEVANT"
             ELSE "SOMEWHAT_RELEVANT"

----------------------------------------------------------------------------
(* Scoring checks                                                          *)

JNum(n)    == [type |-> "number", num |-> n, str |-> ""]
JStr(s)    == [type |-> "string", num |-> 0, str |-> s]
JUndefined == [type |-> "undefined", num |-> 0, str |-> ""]
JNull      == [type |-> "null", num |-> 0, str |-> ""]

(* Replies of the scoring call: it throws, has no content, has content     *)
(* that is not JSON, or has a JSON object with score and confidence.       *)
AIReplies ==
    { [kind |-> k, score |-> JUndefined, confidence |-> JUndefined] :
        k \in {"throw", "nocontent", "badjson"} }
    \cup { [kind |-> "json", score |-> s, confidence |-> c] :
             s \in {JNum(85), JNum(150), JStr("85")},
             c \in {JStr("Medium"), JUndefined} }

AINotCalled == [kind |-> "notcalled", score |-> JUndefined, confidence |-> JUndefined]

NullAICheck == [isNull |-> TRUE, score |-> 0, confidence |-> ""]
NullPlagiarism == [isNull |-> TRUE, score |-> 0, matches |-> <<>>]

\* performAICheck, lines 64-67: the content gate
AICheckGate(content) == Truthy(content) /\ Length(Trim(content)) >= AICheckMinLen

\* a check that accepts any JSON object without validating its fields
AICheckResultOf_Unvalidated(reply) ==
    IF reply.kind # "json" THEN NullAICheck
    ELSE [isNull |-> FALSE, score |-> reply.score.num,
          confidence |-> reply.confidence.str]

\* performAICheck, lines 84-117: the result computed from the reply
AICheckResultOf(reply) ==
    IF reply.kind # "json" THEN NullAICheck
    ELSE IF reply.score.type = "number" /\ reply.confidence.type = "string"
         THEN [isNull |-> FALSE, score |-> reply.score.num,
               confidence |-> reply.confidence.str]
         ELSE NullAICheck

\* a gate off by one
PlagiarismGate_Strict(content) ==
    Truthy(content) /\ Length(Trim(content)) > PlagiarismMinLen

\* performPlagiarismCheck, lines 123-126: the content gate
PlagiarismGate(content) ==
    Truthy(content) /\ Length(Trim(content)) >= PlagiarismMinLen

Max(a, b) == IF a >= b THEN a ELSE b

\* Math.floor(Math.random() * 26): 0..25, sampled at its ends
RandomFloors == {0, 25}

\* performPlagiarismCheck, lines 136-145
PlagiarismResultOf(r) ==
    [isNull |-> FALSE, score |-> Max(PlagiarismBase, r + PlagiarismBase),
     matches |-> <<>>]

----------------------------------------------------------------------------
(* Submission documents                                                    *)

\* paths of submissionSchema; a document keeps no other field (strict mode)
SchemaPaths ==
    { "assignmentId", "submittedBy", "studentName", "studentId",
      "submissionDate", "status", "content", "score", "subScores",
      "overallFeedback", "inlineComments", "fileUrl", "fileName",
      "aiCheckerResults", "plagiarismResults", "feedback" }

(* A name is null or a string: a word ("" when there is none) with pad      *)
(* whitespace characters around it.                                        *)
Name(pad, word) == [isNull |-> FALSE, pad |-> pad, word |-> word]
NullName == [isNull |-> TRUE, pad |-> 0, word |-> ""]
NoName == Name(0, "")

\* JavaScript truthiness of a name: neither null nor the empty string
NameGiven(n) == ~n.isNull /\ (n.pad > 0 \/ n.word # "")

\* the setter of a String path declared with trim: true (null stays null)
SchemaTrim(n) == IF n.isNull THEN n ELSE Name(0, n.word)

\* the cast of value v assigned to path f: studentName has trim: true
SetPath(f, v) == IF f = "studentName" THEN SchemaTrim(v) ELSE v

(* new Submission(obj): the fields of obj that are schema paths, each cast *)
(* by its path, plus _id                                                   *)
NewSubmission(id, obj) ==
    [ f \in {"_id"} \cup (SchemaPaths \cap DOMAIN obj) |->
        IF f = "_id" THEN id ELSE SetPath(f, obj[f]) ]

\* the users collection: u1 has a profile, the profile of u2 is gone
ProfileName == [u \in {"u1"} |-> Name(0, "Alice")]

ManualNames == { Name(p, w) : p \in {0, MaxPad}, w \in {"", "Manual"} }

----------------------------------------------------------------------------
(* Feedback analysis (src/routes/aiRoutes.js): strings                     *)

(* A string is a sequence of characters. The keywords of the response      *)
(* format ("STRENGTHS:", "QUOTE:", ...) are single symbols; every other    *)
(* character stands for itself.                                            *)
SP == " "
DQ == "\""
NL == "\n"
Separator == <<"-", "-", "-">>

MaxBullets == 2
MaxBlocks == 2
MaxPairs == 2
MaxContent == 3

SeqsUpTo(S, n) == UNION { [1..k -> S] : k \in 0..n }

RECURSIVE TrimLeft(_)
TrimLeft(str) ==
    IF str # <<>> /\ Head(str) = SP THEN TrimLeft(Tail(str)) ELSE str

RECURSIVE TrimRight(_)
TrimRight(str) ==
    IF str # <<>> /\ str[Len(str)] = SP
    THEN TrimRight(SubSeq(str, 1, Len(str) - 1)) ELSE str

\* String.prototype.trim
TrimStr(str) == TrimRight(TrimLeft(str))

\* text.split('\n'), line 122
RECURSIVE Split(_)
Split(str) ==
    IF \E i \in 1..Len(str) : str[i] = NL
    THEN LET i == CHOOSE k \in 1..Len(str) :
                    str[k] = NL /\ \A j \in 1..(k - 1) : str[j] # NL
         IN <<SubSeq(str, 1, i - 1)>> \o Split(SubSeq(str, i + 1, Len(str)))
    ELSE <<str>>

\* a search that always starts at the beginning of the text
RECURSIVE IndexOf_FromStart(_, _, _)
IndexOf_FromStart(str, searchString, position) ==
    IF \E i \in 0..(Len(str) - Len(searchString)) :
            SubSeq(str, i + 1, i + Len(searchString)) = searchString
    THEN CHOOSE i \in 0..(Len(str) - Len(searchString)) :
            /\ SubSeq(str, i + 1, i + Len(searchString)) = searchString
            /\ \A j \in 0..(i - 1) :
                 SubSeq(str, j + 1, j + Len(searchString)) # searchString
    ELSE -1

(* String.prototype.indexOf(searchString, position), 0-based: the scan     *)
(* from position to the last place the search string fits; -1 if none.     *)
RECURSIVE IndexOf(_, _, _)
IndexOf(str, searchString, position) ==
    IF position + Len(searchString) > Len(str) THEN -1
    ELSE IF SubSeq(str, position + 1, position + Len(searchString)) = searchString
         THEN position
         ELSE IndexOf(str, searchString, position + 1)

----------------------------------------------------------------------------
(* parseAIResponse, lines 111-188                                          *)

\* the i flag of the regular expressions of lines 129-132 and 155-156
Fold(c) ==
    CASE c = "strengths:" -> "STRENGTHS:"
      [] c = "improvements:" -> "IMPROVEMENTS:"
      [] c = "action items:" -> "ACTION ITEMS:"
      [] c = "inline comments:" -> "INLINE COMMENTS:"
      [] c = "quote:" -> "QUOTE:"
      [] c = "comment:" -> "COMMENT:"
      [] OTHER -> c

\* header tests without the i flag
HeaderOf_CaseSensitive(trimmedLine) ==
    IF trimmedLine = <<>> THEN None
    ELSE CASE trimmedLine[1] = "STRENGTHS:" -> "strengths"
           [] trimmedLine[1] = "IMPROVEMENTS:" -> "improvements"
           [] trimmedLine[1] = "ACTION ITEMS:" -> "actionItems"
           [] trimmedLine[1] = "INLINE COMMENTS:" -> "inline"
           [] OTHER -> None

\* lines 129-132: the section a header line opens, None for any other line
HeaderOf(trimmedLine) ==
    IF trimmedLine = <<>> THEN None
    ELSE CASE Fold(trimmedLine[1]) = "STRENGTHS:" -> "strengths"
           [] Fold(trimmedLine[1]) = "IMPROVEMENTS:" -> "improvements"
           [] Fold(trimmedLine[1]) = "ACTION ITEMS:" -> "actionItems"
           [] Fold(trimmedLine[1]) = "INLINE COMMENTS:" -> "inline"
           [] OTHER -> None

FreeSections == {"strengths", "improvements", "actionItems"}

\* line 112-117
EmptyFeedback ==
    [strengths |-> <<>>, improvements |-> <<>>, actionItems |-> <<>>,
     rawInlineComments |-> <<>>]

\* currentComment: null, or { quote, comment }
NoComment == [isNull |-> TRUE, quote |-> <<>>, comment |-> <<>>]

\* a test that looks at the quote only
Complete_QuoteOnly(c) == ~c.isNull /\ c.quote # <<>>

\* currentComment?.quote && currentComment?.comment
Complete(c) == ~c.isNull /\ c.quote # <<>> /\ c.comment # <<>>

\* {...currentComment}
Pair(c) == [quote |-> c.quote, comment |-> c.comment]

\* trimmedLine.startsWith('- ')
StartsWithBullet(str) == Len(str) >= 2 /\ str[1] = "-" /\ str[2] = SP

\* a marker rule that leaves the line as it is
StripBullet_Keep(str) == str

\* trimmedLine.replace(/^- /, '')
StripBullet(str) ==
    IF StartsWithBullet(str) THEN SubSeq(str, 3, Len(str)) ELSE str

\* replace(/^"|"$/g, ''), line 167
StripQuotes(str) ==
    LET a == IF str # <<>> /\ Head(str) = DQ THEN Tail(str) ELSE str
    IN IF a # <<>> /\ a[Len(a)] = DQ THEN SubSeq(a, 1, Len(a) - 1) ELSE a

\* the lazy group (.+?) followed by "?$ : all of str but one closing quote
LazyGroup(str) ==
    IF Len(str) >= 2 /\ str[Len(str)] = DQ
    THEN SubSeq(str, 1, Len(str) - 1) ELSE str

(* trimmedLine.match(/^KEYWORD:\s*"?(.+?)"?$/i), lines 155-156: whether    *)
(* the line matches and the text of the group.                             *)
FieldMatch(trimmedLine, keyword) ==
    IF trimmedLine = <<>> \/ Fold(Head(trimmedLine)) # keyword
         \/ Tail(trimmedLine) = <<>>
    THEN [matched |-> FALSE, group |-> <<>>]
    ELSE LET rest == TrimLeft(Tail(trimmedLine))
         IN [matched |-> TRUE,
             group |->
                IF rest = <<>> THEN <<SP>>
                ELSE IF Head(rest) = DQ
                     THEN IF Tail(rest) = <<>> THEN <<DQ>>
                          ELSE LazyGroup(Tail(rest))
                     ELSE LazyGroup(rest)]

\* lines 144-151: a line read in a free-text section
FreeTextLine(fb, section, trimmedLine) ==
    IF StartsWithBullet(trimmedLine) \/ (trimmedLine # <<>> /\ fb[section] # <<>>)
    THEN [fb EXCEPT ![section] =
            fb[section] \o (IF fb[section] # <<>> THEN <<NL>> ELSE <<>>)
                        \o TrimStr(StripBullet(trimmedLine))]
    ELSE IF trimmedLine # <<>> /\ fb[section] = <<>>
         THEN [fb EXCEPT ![section] = fb[section] \o trimmedLine]
         ELSE fb

\* a push that never happens
Flush_Drop(fb, c) == fb

\* feedback.rawInlineComments.push({...currentComment}) when complete
Flush(fb, c) ==
    IF Complete(c)
    THEN [fb EXCEPT !.rawInlineComments = Append(fb.rawInlineComments, Pair(c))]
    ELSE fb

\* lines 153-172: a line read in the inline section
InlineLine(st, trimmedLine) ==
    LET quoteMatch == FieldMatch(trimmedLine, "QUOTE:")
        commentMatch == FieldMatch(trimmedLine, "COMMENT:")
        cur == st.comment
    IN IF quoteMatch.matched
       THEN [st EXCEPT !.feedback = Flush(st.feedback, cur),
                       !.comment = [isNull |-> FALSE,
                                    quote |-> TrimStr(quoteMatch.group),
                                    comment |-> <<>>]]
       ELSE IF commentMatch.matched /\ ~cur.isNull
       THEN [st EXCEPT !.comment.comment = TrimStr(commentMatch.group)]
       ELSE IF ~cur.isNull /\ cur.comment = <<>> /\ trimmedLine # <<>>
       THEN [st EXCEPT !.comment.comment = StripQuotes(TrimStr(trimmedLine))]
       ELSE IF ~cur.isNull /\ cur.comment # <<>> /\ trimmedLine # <<>>
       THEN [st EXCEPT !.comment.comment = cur.comment \o <<NL>> \o trimmedLine]
       ELSE st

(* lines 125-176, one iteration of the loop: st is the parser's state      *)
(* [section, comment, feedback], line the line read.                       *)
ParseStep(st, line) ==
    LET trimmedLine == TrimStr(line)
    IN IF HeaderOf(trimmedLine) # None
       THEN [st EXCEPT !.section = HeaderOf(trimmedLine)]
       ELSE IF trimmedLine = Separator /\ st.section = "inline"
       THEN [st EXCEPT !.feedback = Flush(st.feedback, st.comment),
                       !.comment = NoComment]
       ELSE IF st.section \in FreeSections
       THEN [st EXCEPT !.feedback = FreeTextLine(st.feedback, st.section, trimmedLine)]
       ELSE IF st.section = "inline"
       THEN InlineLine(st, trimmedLine)
       ELSE st

\* an end flush that does not look at the section
EndFlush_AnySection(st) == Flush(st.feedback, st.comment)

\* lines 179-181: the flush at the end of the input
EndFlush(st) ==
    IF st.section = "inline" THEN Flush(st.feedback, st.comment) ELSE st.feedback

----------------------------------------------------------------------------
(* Responses that follow the structure the prompt asks for (lines 29-51)   *)

BulletTexts == { <<"a">>, <<"a", SP, "b">> }
PlainBulletTexts == { <<"b">> }
QuoteTexts == { <<"a">>, <<"b", SP, "a">> }
CommentTexts == { <<"c">> }

Blocks == [quote : QuoteTexts, comment : CommentTexts, quoted : BOOLEAN]

(* The structure a response is written from: the bullets of the three      *)
(* sections, the quote/comment blocks, and whether a blank line follows    *)
(* each section.                                                           *)
WellFormedDocs ==
    [strengths : SeqsUpTo(BulletTexts, MaxBullets),
     improvements : SeqsUpTo(PlainBulletTexts, 1),
     actionItems : SeqsUpTo(PlainBulletTexts, 1),
     blocks : SeqsUpTo(Blocks, MaxBlocks),
     spaced : BOOLEAN]

NoDoc == [strengths |-> <<>>, improvements |-> <<>>, actionItems |-> <<>>,
          blocks |-> <<>>, spaced |-> FALSE]

RECURSIVE JoinLines(_)
JoinLines(ls) ==
    IF ls = <<>> THEN <<>>
    ELSE IF Len(ls) = 1 THEN ls[1]
    ELSE ls[1] \o <<NL>> \o JoinLines(Tail(ls))

SectionLines(header, bullets, spaced) ==
    <<(<<header>>)>>
    \o [i \in 1..Len(bullets) |-> <<"-", SP>> \o bullets[i]]
    \o (IF spaced THEN <<(<<>>)>> ELSE <<>>)

FieldLine(keyword, str, quoted) ==
    <<keyword, SP>> \o (IF quoted THEN <<DQ>> \o str \o <<DQ>> ELSE str)

RECURSIVE BlockLines(_)
BlockLines(bs) ==
    IF bs = <<>> THEN <<>>
    ELSE << Separator,
            FieldLine("QUOTE:", bs[1].quote, bs[1].quoted),
            FieldLine("COMMENT:", bs[1].comment, bs[1].quoted) >>
         \o BlockLines(Tail(bs))

\* the text of the response written from d
Render(d) ==
    JoinLines(
        SectionLines("STRENGTHS:", d.strengths, d.spaced)
        \o SectionLines("IMPROVEMENTS:", d.improvements, d.spaced)
        \o SectionLines("ACTION ITEMS:", d.actionItems, d.spaced)
        \o <<(<<"INLINE COMMENTS:">>)>>
        \o BlockLines(d.blocks)
        \o (IF d.blocks # <<>> THEN <<Separator>> ELSE <<>>))

AnalyzedContents == { <<"b", SP, "a", SP, "b", SP, "a">>, <<"a">> }

(* Inputs of locateInlineComments called on its own                        *)
RawPairs ==
    [quote : {<<>>, <<"a">>, <<"a", "a">>, <<"b">>},
     comment : {<<>>, <<"c">>, <<"d">>}]
RawCommentLists == SeqsUpTo(RawPairs, MaxPairs)
Contents == SeqsUpTo({"a", "b"}, MaxContent)

\* line 200
EndIndexOf_OffByOne(startIndex, quote) == startIndex + Len(quote) + 1

EndIndexOf(startIndex, quote) == startIndex + Len(quote)

\* a cursor that stays where the match began
AdvanceCursor_Stay(startIndex, endIndex) == startIndex

\* line 202
AdvanceCursor(startIndex, endIndex) == endIndex

NoRun == [feedback |-> EmptyFeedback, locatedComments |-> <<>>]

----------------------------------------------------------------------------
(* State                                                                   *)

VARIABLES
    assignments,          \* Assignment collection: set of [id, createdBy]
    submissions,          \* Submission collection: set of stored documents
    cloudFiles,           \* object storage: ids of the files it holds
    pc,                   \* position of the running submit call
    req,                  \* the request of the running call
    cloudinaryResult,     \* let cloudinaryResult (line 154)
    submissionContent,    \* let submissionContent (line 189)
    classifierOutcome,    \* what the relevance call answered, if called
    relevance,            \* let relevance (line 201)
    aiReply,              \* what the scoring call answered, if called
    aiPending,            \* performAICheck is awaiting its call
    plagiarismPending,    \* performPlagiarismCheck is awaiting its timer
    aiCheckResultData,    \* let aiCheckResultData (line 226)
    plagiarismResultData, \* let plagiarismResultData (line 227)
    studentName,          \* let studentName (line 237)
    error,                \* the exception caught at line 264
    response,             \* the response sent: [status, message]
    trace,                \* external calls of the running call, in order
    fpc,                  \* position of the running feedback analysis
    aiText,               \* parseAIResponse: text
    originalContent,      \* locateInlineComments: originalContent
    lines,                \* const lines (aiRoutes.js line 122)
    lineIdx,              \* the line the for loop of line 125 is at
    currentSection,       \* let currentSection (line 121)
    currentComment,       \* let currentComment (line 123)
    feedback,             \* const feedback (line 112)
    rawComments,          \* locateInlineComments: rawComments
    pairIdx,              \* the pair the for loop of line 195 is at
    searchStartIndex,     \* let searchStartIndex (line 193)
    locatedComments,      \* const locatedComments (line 192)
    aiDoc,                \* the structure the response was written from
    rerun,                \* the analysis is running a second time
    firstRun,             \* what the first run returned
    lastOp                \* the last PUT or DELETE request and its status

store  == <<assignments, submissions, cloudFiles>>
locals == <<cloudinaryResult, submissionContent, classifierOutcome, relevance,
            aiReply, aiPending, plagiarismPending, aiCheckResultData,
            plagiarismResultData, studentName, error>>
submitVars == <<store, pc, req, locals, response, trace>>
parserVars == <<lines, lineIdx, currentSection, currentComment, feedback>>
locatorVars == <<rawComments, pairIdx, searchStartIndex, locatedComments>>
feedbackVars == <<fpc, aiText, originalContent, parserVars, locatorVars,
                  aiDoc, rerun, firstRun>>
manageVars == <<lastOp>>
vars   == <<submitVars, feedbackVars, manageVars>>

NullResult == [isNull |-> TRUE, secure_url |-> None, public_id |-> None,
               resource_type |-> None]

\* what the storage provider and the database assign in this call
NewPublicId  == "file1"
NewSecureUrl == "https://file1"
NewId        == "s1"

NoResponse == [status |-> 0, message |-> <<>>]
NoOp == [kind |-> None, user |-> None, id |-> None, status |-> 0]
NoRequest  == [hasFile |-> FALSE, file |-> NoFile, assignmentId |-> None,
               studentNameManual |-> NoName, user |-> "u1"]

Requests ==
    { [hasFile |-> TRUE, file |-> f, assignmentId |-> a,
       studentNameManual |-> m, user |-> u] :
        f \in Files, a \in AssignmentIds \cup {None, "bad"},
        m \in ManualNames, u \in Users }
    \cup { [hasFile |-> FALSE, file |-> NoFile, assignmentId |-> a,
            studentNameManual |-> NoName, user |-> u] :
             a \in AssignmentIds \cup {None, "bad"}, u \in Users }

\* mongoose.Types.ObjectId.isValid
IsValidObjectId(x) == x \in AssignmentIds

InitSubmit ==
    /\ assignments = { [id |-> "a1", createdBy |-> "u1"] }
    /\ submissions = {}
    /\ cloudFiles = {}
    /\ pc = "idle"
    /\ req = NoRequest
    /\ cloudinaryResult = NullResult
    /\ submissionContent = EmptyText
    /\ classifierOutcome = NotCalled
    /\ relevance = "SOMEWHAT_RELEVANT"
    /\ aiReply = AINotCalled
    /\ aiPending = FALSE
    /\ plagiarismPending = FALSE
    /\ aiCheckResultData = NullAICheck
    /\ plagiarismResultData = NullPlagiarism
    /\ studentName = NullName
    /\ error = NoError
    /\ response = NoResponse
    /\ trace = <<>>
    /\ lastOp = NoOp

\* no feedback analysis is running: the locals of its functions
FeedbackLocalsIdle ==
    /\ lines = <<>>
    /\ lineIdx = 1
    /\ currentSection = None
    /\ currentComment = NoComment
    /\ feedback = EmptyFeedback
    /\ pairIdx = 1
    /\ searchStartIndex = 0
    /\ locatedComments = <<>>
    /\ rerun = FALSE
    /\ firstRun = NoRun

Init ==
    /\ InitSubmit
    /\ FeedbackLocalsIdle
    /\ fpc = "idle"
    /\ aiText = <<>>
    /\ originalContent = <<>>
    /\ rawComments = <<>>
    /\ aiDoc = NoDoc

(* An entry of the trace: the call made, the id it was made on, whether it *)
(* returned (ok) or threw, and for a response its status.                  *)
Call(op, id, ok) == [op |-> op, id |-> id, ok |-> ok, status |-> 0]
Ev(op, id)       == Call(op, id, TRUE)
Responded(st)    == [op |-> "respond", id |-> None, ok |-> TRUE, status |-> st]

----------------------------------------------------------------------------
(* POST /api/submissions                                                   *)

\* a request reaches the handler (line 150-154)
ReceiveRequest ==
    /\ pc = "idle"
    /\ \E r \in Requests : req' = r
    /\ pc' = "validate"
    /\ cloudinaryResult' = NullResult
    /\ submissionContent' = EmptyText
    /\ classifierOutcome' = NotCalled
    /\ relevance' = "SOMEWHAT_RELEVANT"
    /\ aiReply' = AINotCalled
    /\ aiPending' = FALSE
    /\ plagiarismPending' = FALSE
    /\ aiCheckResultData' = NullAICheck
    /\ plagiarismResultData' = NullPlagiarism
    /\ studentName' = NullName
    /\ error' = NoError
    /\ response' = NoResponse
    /\ trace' = <<>>
    /\ UNCHANGED store
    /\ UNCHANGED feedbackVars
    /\ UNCHANGED manageVars

\* lines 157-158
Validate ==
    /\ pc = "validate"
    /\ IF ~req.hasFile
       THEN /\ response' = [status |-> 400, message |-> MsgFileRequired]
            /\ trace' = Append(trace, Responded(400))
            /\ pc' = "done"
            /\ error' = error
       ELSE IF req.assignmentId = None \/ ~IsValidObjectId(req.assignmentId)
       THEN /\ error' = Err("Error", MsgInvalidId)
            /\ pc' = "catch"
            /\ UNCHANGED <<response, trace>>
       ELSE /\ pc' = "findAssignment"
            /\ UNCHANGED <<error, response, trace>>
    /\ UNCHANGED <<store, req, cloudinaryResult, submissionContent,
                   classifierOutcome, relevance, aiReply, aiPending,
                   plagiarismPending, aiCheckResultData, plagiarismResultData,
                   studentName>>
    /\ UNCHANGED feedbackVars
    /\ UNCHANGED manageVars

\* lines 160-162: Assignment.findById
FindAssignment ==
    /\ pc = "findAssignment"
    /\ \E dbOk \in BOOLEAN :
         /\ trace' = Append(trace, Call("findAssignment", req.assignmentId, dbOk))
         /\ IF ~dbOk
            THEN /\ error' = Err("MongoError", MsgExternal)
                 /\ pc' = "catch"
            ELSE IF \E a \in assignments : a.id = req.assignmentId
            THEN /\ pc' = "upload"
                 /\ error' = error
            ELSE /\ error' = Err("Error", MsgNotFound)
                 /\ pc' = "catch"
    /\ UNCHANGED <<store, req, cloudinaryResult, submissionContent,
                   classifierOutcome, relevance, aiReply, aiPending,
                   plagiarismPending, aiCheckResultData, plagiarismResultData,
                   studentName, response>>
    /\ UNCHANGED feedbackVars
    /\ UNCHANGED manageVars

(* What the provider hands to the upload callback: an error, or a result   *)
(* that may lack the secure URL or the public id.                          *)
UploadResults ==
    { [isNull |-> FALSE, secure_url |-> u, public_id |-> p, resource_type |-> "raw"] :
        u \in {None, NewSecureUrl}, p \in {None, NewPublicId} }

\* lines 164-187: upload_stream, then the secure_url test
Upload ==
    /\ pc = "upload"
    /\ \/ /\ error' = Err("Error", MsgUploadFailed)
          /\ trace' = Append(trace, Call("upload", NewPublicId, FALSE))
          /\ pc' = "catch"
          /\ UNCHANGED <<cloudinaryResult, cloudFiles>>
       \/ \E result \in UploadResults :
            /\ trace' = Append(trace, Ev("upload", NewPublicId))
            /\ cloudinaryResult' = result
            /\ cloudFiles' = cloudFiles \cup {NewPublicId}
            /\ IF result.secure_url = None
               THEN /\ error' = Err("Error", MsgNoSecureUrl)
                    /\ pc' = "catch"
               ELSE /\ pc' = "extract"
                    /\ error' = error
    /\ UNCHANGED <<assignments, submissions, req, submissionContent,
                   classifierOutcome, relevance, aiReply, aiPending,
                   plagiarismPending, aiCheckResultData, plagiarismResultData,
                   studentName, response>>
    /\ UNCHANGED feedbackVars
    /\ UNCHANGED manageVars

\* a gate off by one
RelevanceGate_Strict(content) ==
    Truthy(content) /\ Length(Trim(content)) > RelevanceMinLen

\* line 202: the relevance gate on the extracted text
RelevanceGate(content) ==
    Truthy(content) /\ Length(Trim(content)) >= RelevanceMinLen

\* an extraction whose failure aborts the call
Extract_Abort ==
    /\ pc = "extract"
    /\ LET r == extractTextFromFile(TRUE, req.file)
       IN  /\ submissionContent' = r.text
           /\ trace' = Append(trace, Call("extract", None, r.ok))
           /\ IF r.ok
              THEN /\ pc' = IF RelevanceGate(r.text) THEN "classify" ELSE "gate"
                   /\ error' = error
              ELSE /\ pc' = "catch"
                   /\ error' = Err("Error", <<"Could not process file content:", "extraction">>)
    /\ relevance' = "SOMEWHAT_RELEVANT"
    /\ UNCHANGED <<store, req, cloudinaryResult, classifierOutcome,
                   aiReply, aiPending, plagiarismPending, aiCheckResultData,
                   plagiarismResultData, studentName, response>>
    /\ UNCHANGED feedbackVars
    /\ UNCHANGED manageVars

\* lines 189-202: extraction, failure caught and replaced by ''
Extract ==
    /\ pc = "extract"
    /\ LET r == extractTextFromFile(TRUE, req.file)
           content == IF r.ok THEN r.text ELSE EmptyText
       IN  /\ submissionContent' = content
           /\ pc' = IF RelevanceGate(content) THEN "classify" ELSE "gate"
           /\ trace' = Append(trace, Call("extract", None, r.ok))
    /\ relevance' = "SOMEWHAT_RELEVANT"
    /\ UNCHANGED <<store, req, cloudinaryResult, classifierOutcome,
                   aiReply, aiPending, plagiarismPending, aiCheckResultData,
                   plagiarismResultData, studentName, error, response>>
    /\ UNCHANGED feedbackVars
    /\ UNCHANGED manageVars

\* lines 203-211: the relevance call, its failure caught
Classify ==
    /\ pc = "classify"
    /\ \E outcome \in ClassifierOutcomes :
         /\ classifierOutcome' = outcome
         /\ relevance' = RelevanceOf(outcome)
         /\ trace' = Append(trace, Call("classify", None, outcome.kind # "throw"))
    /\ pc' = "gate"
    /\ UNCHANGED <<store, req, cloudinaryResult, submissionContent,
                   aiReply, aiPending, plagiarismPending, aiCheckResultData,
                   plagiarismResultData, studentName, error, response>>
    /\ UNCHANGED feedbackVars
    /\ UNCHANGED manageVars

\* cloudinary.uploader.destroy(public_id, ...): the storage after the call
Destroyed(files, id, ok) == IF ok THEN files \ {id} ELSE files

\* lines 218-223: off-topic rejection, delete then throw
RejectOffTopic ==
    /\ pc = "gate"
    /\ relevance = "OFF_TOPIC"
    /\ \E ok \in BOOLEAN :
         /\ cloudFiles' = Destroyed(cloudFiles, cloudinaryResult.public_id, ok)
         /\ error' = IF ok THEN Err("Error", MsgRejected)
                          ELSE Err("Error", MsgDestroyFailed)
         /\ trace' = Append(trace, Call("destroy", cloudinaryResult.public_id, ok))
    /\ pc' = "catch"
    /\ UNCHANGED <<assignments, submissions, req, cloudinaryResult,
                   submissionContent, classifierOutcome, relevance, aiReply,
                   aiPending, plagiarismPending, aiCheckResultData,
                   plagiarismResultData, studentName, response>>
    /\ UNCHANGED feedbackVars
    /\ UNCHANGED manageVars

\* line 228: the gate of the scoring fan-out
ScoringGate(content) ==
    Truthy(content) /\ Length(Trim(content)) >= ScoringMinLen

\* lines 226-232: Promise.all starts both checks; each applies its own gate
StartScoring ==
    /\ pc = "gate"
    /\ relevance # "OFF_TOPIC"
    /\ ScoringGate(submissionContent)
    /\ aiPending' = AICheckGate(submissionContent)
    /\ plagiarismPending' = PlagiarismGate(submissionContent)
    /\ aiCheckResultData' = NullAICheck
    /\ plagiarismResultData' = NullPlagiarism
    /\ trace' = Append(Append(trace, Ev("performAICheck", None)),
                       Ev("performPlagiarismCheck", None))
    /\ pc' = "scoring"
    /\ UNCHANGED <<store, req, cloudinaryResult, submissionContent,
                   classifierOutcome, relevance, aiReply, studentName, error,
                   response>>
    /\ UNCHANGED feedbackVars
    /\ UNCHANGED manageVars

\* a handler that refuses content too short to be checked
SkipScoring_Abort ==
    /\ pc = "gate"
    /\ relevance # "OFF_TOPIC"
    /\ ~ScoringGate(submissionContent)
    /\ error' = Err("Error", <<"Could not process file content:", "too short">>)
    /\ pc' = "catch"
    /\ UNCHANGED <<store, req, cloudinaryResult, submissionContent,
                   classifierOutcome, relevance, aiReply, aiPending,
                   plagiarismPending, aiCheckResultData, plagiarismResultData,
                   studentName, response, trace>>
    /\ UNCHANGED feedbackVars
    /\ UNCHANGED manageVars

\* lines 226-227, 233: both results stay null
SkipScoring ==
    /\ pc = "gate"
    /\ relevance # "OFF_TOPIC"
    /\ ~ScoringGate(submissionContent)
    /\ aiCheckResultData' = NullAICheck
    /\ plagiarismResultData' = NullPlagiarism
    /\ pc' = "resolveName"
    /\ UNCHANGED <<store, req, cloudinaryResult, submissionContent,
                   classifierOutcome, relevance, aiReply, aiPending,
                   plagiarismPending, studentName, error, response, trace>>
    /\ UNCHANGED feedbackVars
    /\ UNCHANGED manageVars

\* lines 84-117: the scoring call of performAICheck settles
AICheckSettle ==
    /\ pc = "scoring"
    /\ aiPending
    /\ \E reply \in AIReplies :
         /\ aiReply' = reply
         /\ aiCheckResultData' = AICheckResultOf(reply)
         /\ trace' = Append(trace, Call("aiCheckSettled", None, reply.kind # "throw"))
    /\ aiPending' = FALSE
    /\ UNCHANGED <<store, pc, req, cloudinaryResult, submissionContent,
                   classifierOutcome, relevance, plagiarismPending,
                   plagiarismResultData, studentName, error, response>>
    /\ UNCHANGED feedbackVars
    /\ UNCHANGED manageVars

\* lines 132-145: the timer of performPlagiarismCheck fires
PlagiarismSettle ==
    /\ pc = "scoring"
    /\ plagiarismPending
    /\ \E r \in RandomFloors : plagiarismResultData' = PlagiarismResultOf(r)
    /\ plagiarismPending' = FALSE
    /\ trace' = Append(trace, Ev("plagiarismSettled", None))
    /\ UNCHANGED <<store, pc, req, cloudinaryResult, submissionContent,
                   classifierOutcome, relevance, aiReply, aiPending,
                   aiCheckResultData, studentName, error, response>>
    /\ UNCHANGED feedbackVars
    /\ UNCHANGED manageVars

\* a join that resolves as soon as one check has settled
JoinScoring_Race ==
    /\ pc = "scoring"
    /\ ~aiPending \/ ~plagiarismPending
    /\ pc' = "resolveName"
    /\ UNCHANGED <<store, req, locals, response, trace>>
    /\ UNCHANGED feedbackVars
    /\ UNCHANGED manageVars

\* line 229: Promise.all resolves once both checks have settled
JoinScoring ==
    /\ pc = "scoring"
    /\ ~aiPending /\ ~plagiarismPending
    /\ pc' = "resolveName"
    /\ UNCHANGED <<store, req, locals, response, trace>>
    /\ UNCHANGED feedbackVars
    /\ UNCHANGED manageVars

\* a resolution that reads the profile whatever the request carries
ResolveName_ProfileFirst ==
    /\ pc = "resolveName"
    /\ studentName' = IF req.user \in DOMAIN ProfileName
                        THEN ProfileName[req.user] ELSE NullName
    /\ trace' = Append(trace, Ev("userLookup", req.user))
    /\ pc' = "save"
    /\ UNCHANGED <<store, req, cloudinaryResult, submissionContent,
                   classifierOutcome, relevance, aiReply, aiPending,
                   plagiarismPending, aiCheckResultData, plagiarismResultData,
                   error, response>>
    /\ UNCHANGED feedbackVars
    /\ UNCHANGED manageVars

\* lines 237-241: manual name, else User.findById
ResolveName ==
    /\ pc = "resolveName"
    /\ IF NameGiven(req.studentNameManual)
       THEN /\ studentName' = req.studentNameManual
            /\ pc' = "save"
            /\ UNCHANGED <<error, trace>>
       ELSE \/ /\ studentName' = IF req.user \in DOMAIN ProfileName
                                   THEN ProfileName[req.user] ELSE NullName
               /\ trace' = Append(trace, Ev("userLookup", req.user))
               /\ pc' = "save"
               /\ error' = error
            \/ /\ error' = Err("MongoError", MsgExternal)
               /\ trace' = Append(trace, Call("userLookup", req.user, FALSE))
               /\ pc' = "catch"
               /\ studentName' = NullName
    /\ UNCHANGED <<store, req, cloudinaryResult, submissionContent,
                   classifierOutcome, relevance, aiReply, aiPending,
                   plagiarismPending, aiCheckResultData, plagiarismResultData,
                   response>>
    /\ UNCHANGED feedbackVars
    /\ UNCHANGED manageVars

\* lines 243-256: the object handed to the Submission constructor
SubmissionFields ==
    [ assignmentId |-> req.assignmentId,
      submittedBy |-> req.user,
      studentName |-> studentName,
      status |-> "pending",
      content |-> None,
      fileUrl |-> cloudinaryResult.secure_url,
      fileName |-> req.file.ext,
      cloudinaryPublicId |-> cloudinaryResult.public_id,
      cloudinaryResourceType |-> cloudinaryResult.resource_type,
      score |-> JNull,
      aiCheckerResults |-> aiCheckResultData,
      plagiarismResults |-> plagiarismResultData,
      feedback |-> None ]

\* lines 243-258: new Submission(...).save()
Save ==
    /\ pc = "save"
    /\ \/ /\ submissions' = submissions \cup {NewSubmission(NewId, SubmissionFields)}
          /\ trace' = Append(trace, Ev("save", NewId))
          /\ pc' = "readBack"
          /\ error' = error
       \/ /\ error' = Err("MongoError", MsgExternal)
          /\ trace' = Append(trace, Call("save", NewId, FALSE))
          /\ pc' = "catch"
          /\ submissions' = submissions
    /\ UNCHANGED <<assignments, cloudFiles, req, cloudinaryResult,
                   submissionContent, classifierOutcome, relevance, aiReply,
                   aiPending, plagiarismPending, aiCheckResultData,
                   plagiarismResultData, studentName, response>>
    /\ UNCHANGED feedbackVars
    /\ UNCHANGED manageVars

\* lines 259-262: read-back of the saved document, then 201
ReadBack ==
    /\ pc = "readBack"
    /\ \/ /\ response' = [status |-> 201, message |-> <<>>]
          /\ trace' = Append(Append(trace, Ev("readBack", NewId)), Responded(201))
          /\ pc' = "done"
          /\ error' = error
       \/ /\ error' = Err("MongoError", MsgExternal)
          /\ trace' = Append(trace, Call("readBack", NewId, FALSE))
          /\ pc' = "catch"
          /\ response' = response
    /\ UNCHANGED <<store, req, cloudinaryResult, submissionContent,
                   classifierOutcome, relevance, aiReply, aiPending,
                   plagiarismPending, aiCheckResultData, plagiarismResultData,
                   studentName>>
    /\ UNCHANGED feedbackVars
    /\ UNCHANGED manageVars

\* a mapping without the 404 case
ErrorResponse_No404(e) ==
    IF \/ StartsWith(e.message, <<"Submission rejected:">>)
       \/ StartsWith(e.message, <<"Could not process file content:">>)
       \/ StartsWith(e.message, <<"Invalid or missing assignment ID">>)
    THEN [status |-> 400, message |-> e.message]
    ELSE IF e.name = "ValidationError"
    THEN [status |-> 400, message |-> <<"Validation failed">>]
    ELSE [status |-> 500, message |-> <<"Server error creating submission">>]

\* lines 277-284: the response chosen for a caught error
ErrorResponse(e) ==
    IF \/ StartsWith(e.message, <<"Submission rejected:">>)
       \/ StartsWith(e.message, <<"Could not process file content:">>)
       \/ StartsWith(e.message, <<"Invalid or missing assignment ID">>)
    THEN [status |-> 400, message |-> e.message]
    ELSE IF e.message = MsgNotFound
    THEN [status |-> 404, message |-> e.message]
    ELSE IF e.name = "ValidationError"
    THEN [status |-> 400, message |-> <<"Validation failed">>]
    ELSE [status |-> 500, message |-> <<"Server error creating submission">>]

\* a cleanup that runs only for a result that also has its secure URL
NeedsCleanup_OnlyWithUrl(result) ==
    ~result.isNull /\ result.public_id # None /\ result.secure_url # None

\* a cleanup that runs whatever the upload returned
NeedsCleanup_Always(result) == TRUE

\* line 267: the cleanup runs when an upload result with a public id exists
NeedsCleanup(result) == ~result.isNull /\ result.public_id # None

\* lines 264-285: cleanup delete (its failure swallowed), then the response
Catch ==
    /\ pc = "catch"
    /\ IF NeedsCleanup(cloudinaryResult)
       THEN \E ok \in BOOLEAN :
              /\ cloudFiles' = Destroyed(cloudFiles, cloudinaryResult.public_id, ok)
              /\ trace' = Append(Append(trace, Call("destroy", cloudinaryResult.public_id, ok)),
                                 Responded(ErrorResponse(error).status))
       ELSE /\ cloudFiles' = cloudFiles
            /\ trace' = Append(trace, Responded(ErrorResponse(error).status))
    /\ response' = ErrorResponse(error)
    /\ pc' = "done"
    /\ UNCHANGED <<assignments, submissions, req, locals>>
    /\ UNCHANGED feedbackVars
    /\ UNCHANGED manageVars

----------------------------------------------------------------------------

Next ==
    \/ ReceiveRequest
    \/ Validate
    \/ FindAssignment
    \/ Upload
    \/ Extract
    \/ Classify
    \/ RejectOffTopic
    \/ StartScoring
    \/ SkipScoring
    \/ AICheckSettle
    \/ PlagiarismSettle
    \/ JoinScoring
    \/ ResolveName
    \/ Save
    \/ ReadBack
    \/ Catch

Spec == Init /\ [][Next]_vars

----------------------------------------------------------------------------
(* POST /api/ai/analyze-submission: parseAIResponse, locateInlineComments  *)

\* lines 112-123: the locals of parseAIResponse
ParseStart ==
    /\ fpc = "parseStart"
    /\ feedback' = EmptyFeedback
    /\ currentSection' = None
    /\ lines' = Split(aiText)
    /\ currentComment' = NoComment
    /\ lineIdx' = 1
    /\ fpc' = "parsing"
    /\ UNCHANGED <<submitVars, aiText, originalContent, locatorVars, aiDoc,
                   rerun, firstRun>>
    /\ UNCHANGED manageVars

\* lines 125-176: one line of the loop
ParseLine ==
    /\ fpc = "parsing"
    /\ lineIdx <= Len(lines)
    /\ LET st == ParseStep([section |-> currentSection,
                            comment |-> currentComment,
                            feedback |-> feedback], lines[lineIdx])
       IN /\ currentSection' = st.section
          /\ currentComment' = st.comment
          /\ feedback' = st.feedback
    /\ lineIdx' = lineIdx + 1
    /\ UNCHANGED <<submitVars, fpc, aiText, originalContent, lines,
                   locatorVars, aiDoc, rerun, firstRun>>
    /\ UNCHANGED manageVars

\* lines 179-187: the flush at the end of the input, return feedback
ParseReturn ==
    /\ fpc = "parsing"
    /\ lineIdx > Len(lines)
    /\ feedback' = EndFlush([section |-> currentSection,
                             comment |-> currentComment,
                             feedback |-> feedback])
    /\ fpc' = "parsed"
    /\ UNCHANGED <<submitVars, aiText, originalContent, lines, lineIdx,
                   currentSection, currentComment, locatorVars, aiDoc,
                   rerun, firstRun>>
    /\ UNCHANGED manageVars

\* line 82: the handler passes the parsed pairs and the submission text
CallLocate ==
    /\ fpc = "parsed"
    /\ rawComments' = feedback.rawInlineComments
    /\ fpc' = "locateStart"
    /\ UNCHANGED <<submitVars, aiText, originalContent, parserVars, pairIdx,
                   searchStartIndex, locatedComments, aiDoc, rerun, firstRun>>
    /\ UNCHANGED manageVars

\* a start that keeps the cursor of the call before
LocateStart_KeepCursor ==
    /\ fpc = "locateStart"
    /\ locatedComments' = <<>>
    /\ pairIdx' = 1
    /\ fpc' = "locating"
    /\ UNCHANGED <<submitVars, aiText, originalContent, parserVars,
                   rawComments, searchStartIndex, aiDoc, rerun, firstRun>>
    /\ UNCHANGED manageVars

\* lines 192-193: the locals of locateInlineComments
LocateStart ==
    /\ fpc = "locateStart"
    /\ locatedComments' = <<>>
    /\ searchStartIndex' = 0
    /\ pairIdx' = 1
    /\ fpc' = "locating"
    /\ UNCHANGED <<submitVars, aiText, originalContent, parserVars,
                   rawComments, aiDoc, rerun, firstRun>>
    /\ UNCHANGED manageVars

\* lines 195-205: one pair of the loop
LocateStep ==
    /\ fpc = "locating"
    /\ pairIdx <= Len(rawComments)
    /\ LET quote == rawComments[pairIdx].quote
           comment == rawComments[pairIdx].comment
           startIndex == IndexOf(originalContent, quote, searchStartIndex)
           endIndex == EndIndexOf(startIndex, quote)
       IN IF quote = <<>> \/ comment = <<>>
          THEN UNCHANGED <<locatedComments, searchStartIndex>>
          ELSE IF startIndex # -1
          THEN /\ locatedComments' =
                     Append(locatedComments,
                            [startIndex |-> startIndex, endIndex |-> endIndex,
                             text |-> comment])
               /\ searchStartIndex' = AdvanceCursor(startIndex, endIndex)
          ELSE UNCHANGED <<locatedComments, searchStartIndex>>
    /\ pairIdx' = pairIdx + 1
    /\ UNCHANGED <<submitVars, fpc, aiText, originalContent, parserVars,
                   rawComments, aiDoc, rerun, firstRun>>
    /\ UNCHANGED manageVars

\* line 207: return locatedComments
LocateReturn ==
    /\ fpc = "locating"
    /\ pairIdx > Len(rawComments)
    /\ fpc' = "located"
    /\ UNCHANGED <<submitVars, aiText, originalContent, parserVars,
                   locatorVars, aiDoc, rerun, firstRun>>
    /\ UNCHANGED manageVars

\* the same two inputs are analysed once more
Rerun ==
    /\ fpc = "located"
    /\ ~rerun
    /\ rerun' = TRUE
    /\ firstRun' = [feedback |-> feedback, locatedComments |-> locatedComments]
    /\ fpc' = "parseStart"
    /\ UNCHANGED <<submitVars, aiText, originalContent, parserVars,
                   locatorVars, aiDoc>>
    /\ UNCHANGED manageVars

\* locateInlineComments called on any list of pairs and any text
InitLocate ==
    /\ InitSubmit
    /\ FeedbackLocalsIdle
    /\ fpc = "locateStart"
    /\ aiText = <<>>
    /\ aiDoc = NoDoc
    /\ rawComments \in RawCommentLists
    /\ originalContent \in Contents

NextLocate ==
    \/ LocateStart
    \/ LocateStep
    \/ LocateReturn

SpecLocate == InitLocate /\ [][NextLocate]_vars

\* the analysis of a response that follows the expected structure
InitAnalyze ==
    /\ InitSubmit
    /\ FeedbackLocalsIdle
    /\ fpc = "parseStart"
    /\ aiDoc \in WellFormedDocs
    /\ aiText = Render(aiDoc)
    /\ originalContent \in AnalyzedContents
    /\ rawComments = <<>>

NextAnalyze ==
    \/ ParseStart
    \/ ParseLine
    \/ ParseReturn
    \/ CallLocate
    \/ LocateStart
    \/ LocateStep
    \/ LocateReturn
    \/ Rerun

SpecAnalyze == InitAnalyze /\ [][NextAnalyze]_vars

(* parseAIResponse on any text: the lines a response can be made of, in    *)
(* any order. The inline header is written in lower case with a leading    *)
(* space; the second quote line carries a quote of one space.              *)
MaxLines == 5

InlineHeaderLine == <<SP, "inline comments:">>
StrengthsHeaderLine == <<"STRENGTHS:">>
QuoteLine == FieldLine("QUOTE:", <<"a">>, TRUE)
BlankQuoteLine == FieldLine("QUOTE:", <<SP>>, TRUE)
CommentLine == FieldLine("COMMENT:", <<"c">>, TRUE)
TextLine == <<"x">>

InputLines ==
    { InlineHeaderLine, StrengthsHeaderLine, Separator, QuoteLine,
      BlankQuoteLine, CommentLine, TextLine }

InitParse ==
    /\ InitSubmit
    /\ FeedbackLocalsIdle
    /\ fpc = "parseStart"
    /\ aiDoc = NoDoc
    /\ \E ls \in SeqsUpTo(InputLines, MaxLines) : aiText = JoinLines(ls)
    /\ originalContent = <<>>
    /\ rawComments = <<>>

NextParse ==
    \/ ParseStart
    \/ ParseLine
    \/ ParseReturn

SpecParse == InitParse /\ [][NextParse]_vars

----------------------------------------------------------------------------
(* PUT and DELETE /api/submissions/:submissionId, DELETE /api/assignments/:id *)

SubmissionIds == {NewId, "s2"}

\* mongoose.Types.ObjectId.isValid on a submission id
IsValidSubmissionId(x) == x \in SubmissionIds

\* a whitelist that lets every key of the body through
AllowedUpdates_Any ==
    { "studentName", "studentId", "status", "score", "subScores",
      "overallFeedback", "inlineComments", "feedback",
      "assignmentId", "submittedBy", "fileUrl", "fileName",
      "aiCheckerResults", "plagiarismResults" }

\* submissions.js lines 303-306
AllowedUpdates ==
    { "studentName", "studentId", "status", "score", "subScores",
      "overallFeedback", "inlineComments", "feedback" }

\* the enum of submissionSchema.status
StatusEnum == {"pending", "graded", "late"}

(* Bodies of PUT requests: each is the object req.body, a record of the    *)
(* keys it carries.                                                        *)
UpdateBodies ==
    { [studentId |-> "id7"],
      [score |-> JNum(80)],
      [score |-> JNum(80), status |-> "pending"],
      [score |-> JNull],
      [score |-> JStr("abc")],
      [status |-> "pending"],
      [status |-> "late"],
      [status |-> "archived"],
      [assignmentId |-> "a2", submittedBy |-> "u2",
       fileUrl |-> "https://other", fileName |-> "other",
       aiCheckerResults |-> NullAICheck, plagiarismResults |-> NullPlagiarism,
       studentName |-> Name(MaxPad, "Renamed"), feedback |-> "Good"] }

\* a rule that leaves the status as the request set it
GradeOnScore_Never(doc, updates) == doc

\* line 316: a request with a non-null score makes the submission graded
GradeOnScore(doc, updates) ==
    IF /\ "score" \in DOMAIN updates
       /\ updates.score.type \notin {"undefined", "null"}
       /\ doc.status # "graded"
    THEN [doc EXCEPT !.status = "graded"]
    ELSE doc

\* lines 307-316: the document after the body has been applied to it
ApplyUpdates(doc, updates) ==
    LET keys == DOMAIN updates \cap AllowedUpdates
        assigned == [f \in DOMAIN doc \cup keys |->
                        IF f \in keys THEN SetPath(f, updates[f]) ELSE doc[f]]
    IN GradeOnScore(assigned, updates)

\* validation run by submission.save(): the enum of status, the cast of score
IsValidSubmission(doc) ==
    /\ doc.status \in StatusEnum
    /\ doc.score.type \in {"number", "null"}

(* lines 300-301 and 614-618: the parent assignment exists and userId      *)
(* created it                                                              *)
Permitted(doc, userId) ==
    \E a \in assignments : a.id = doc.assignmentId /\ a.createdBy = userId

Found(submissionId) == { d \in submissions : d._id = submissionId }

Request(kind, userId, id, status) ==
    [kind |-> kind, user |-> userId, id |-> id, status |-> status]

(* router.put('/:submissionId'), lines 289-360. fails names the database   *)
(* call that throws, if any. The download of the file for the response     *)
(* (lines 328-341) changes nothing and its failure is caught.              *)
PutSubmission(userId, submissionId, updates, fails) ==
    /\ pc = "done"
    /\ IF ~IsValidSubmissionId(submissionId)
       THEN /\ lastOp' = Request("put", userId, submissionId, 400)
            /\ UNCHANGED submissions
       ELSE IF fails = "find"
       THEN /\ lastOp' = Request("put", userId, submissionId, 500)
            /\ UNCHANGED submissions
       ELSE IF Found(submissionId) = {}
       THEN /\ lastOp' = Request("put", userId, submissionId, 404)
            /\ UNCHANGED submissions
       ELSE LET submission == CHOOSE d \in Found(submissionId) : TRUE
                updated == ApplyUpdates(submission, updates)
            IN IF ~Permitted(submission, userId)
               THEN /\ lastOp' = Request("put", userId, submissionId, 403)
                    /\ UNCHANGED submissions
               ELSE IF ~IsValidSubmission(updated)
               THEN /\ lastOp' = Request("put", userId, submissionId, 400)
                    /\ UNCHANGED submissions
               ELSE IF fails = "save"
               THEN /\ lastOp' = Request("put", userId, submissionId, 500)
                    /\ UNCHANGED submissions
               ELSE /\ submissions' = (submissions \ {submission}) \cup {updated}
                    /\ lastOp' = Request("put", userId, submissionId,
                                         IF fails = "readBack" THEN 500 ELSE 200)
    /\ UNCHANGED <<assignments, cloudFiles, pc, req, locals, response, trace>>
    /\ UNCHANGED feedbackVars

\* if (submission.cloudinaryPublicId), line 623
HasStoredHandle(doc) ==
    "cloudinaryPublicId" \in DOMAIN doc /\ doc.cloudinaryPublicId # None

(* router.delete('/:submissionId'), lines 603-637. fails names the call    *)
(* that throws, if any.                                                    *)
DeleteSubmission(userId, submissionId, fails) ==
    /\ pc = "done"
    /\ IF ~IsValidSubmissionId(submissionId)
       THEN /\ lastOp' = Request("delete", userId, submissionId, 400)
            /\ UNCHANGED <<submissions, cloudFiles, trace>>
       ELSE IF fails = "find"
       THEN /\ lastOp' = Request("delete", userId, submissionId, 500)
            /\ UNCHANGED <<submissions, cloudFiles, trace>>
       ELSE IF Found(submissionId) = {}
       THEN /\ lastOp' = Request("delete", userId, submissionId, 404)
            /\ UNCHANGED <<submissions, cloudFiles, trace>>
       ELSE LET submission == CHOOSE d \in Found(submissionId) : TRUE
            IN IF ~Permitted(submission, userId)
               THEN /\ lastOp' = Request("delete", userId, submissionId, 403)
                    /\ UNCHANGED <<submissions, cloudFiles, trace>>
               ELSE IF HasStoredHandle(submission) /\ fails = "destroy"
               THEN /\ trace' = Append(trace, Call("destroy",
                                          submission.cloudinaryPublicId, FALSE))
                    /\ lastOp' = Request("delete", userId, submissionId, 500)
                    /\ UNCHANGED <<submissions, cloudFiles>>
               ELSE /\ IF HasStoredHandle(submission)
                       THEN /\ cloudFiles' = Destroyed(cloudFiles,
                                               submission.cloudinaryPublicId, TRUE)
                            /\ trace' = Append(trace,
                                               Ev("destroy", submission.cloudinaryPublicId))
                       ELSE UNCHANGED <<cloudFiles, trace>>
                    /\ IF fails = "deleteOne"
                       THEN /\ lastOp' = Request("delete", userId, submissionId, 500)
                            /\ UNCHANGED submissions
                       ELSE /\ submissions' = submissions \ {submission}
                            /\ lastOp' = Request("delete", userId, submissionId, 200)
    /\ UNCHANGED <<assignments, pc, req, locals, response>>
    /\ UNCHANGED feedbackVars

(* router.delete('/:id') of assignments.js, lines 209-245: the submissions *)
(* of the assignment are left in place (lines 231-235 are commented out).  *)
DeleteAssignment(userId, assignmentId, fails) ==
    /\ pc = "done"
    /\ IF ~IsValidObjectId(assignmentId)
       THEN /\ lastOp' = Request("deleteAssignment", userId, assignmentId, 400)
            /\ UNCHANGED assignments
       ELSE IF fails = "find"
       THEN /\ lastOp' = Request("deleteAssignment", userId, assignmentId, 500)
            /\ UNCHANGED assignments
       ELSE IF \E a \in assignments : a.id = assignmentId /\ a.createdBy = userId
       THEN /\ assignments' = { a \in assignments : a.id # assignmentId }
            /\ lastOp' = Request("deleteAssignment", userId, assignmentId, 200)
       ELSE /\ lastOp' = Request("deleteAssignment", userId, assignmentId,
                                 IF \E a \in assignments : a.id = assignmentId
                                 THEN 403 ELSE 404)
            /\ UNCHANGED assignments
    /\ UNCHANGED <<submissions, cloudFiles, pc, req, locals, response, trace>>
    /\ UNCHANGED feedbackVars

\* the request of the submit call whose record is then updated and deleted
ManagedRequest ==
    [hasFile |-> TRUE,
     file |-> [ext |-> "txt", wellFormed |-> TRUE,
               text |-> [lead |-> 0, core |-> ScoringMinLen, trail |-> 0]],
     assignmentId |-> "a1", studentNameManual |-> NoName, user |-> "u2"]

(* The state in which router.post('/') has answered 201 to ManagedRequest:  *)
(* the file is stored, both checks have run and the record is saved. Spec   *)
(* reaches this state (ReceiveRequest ... ReadBack).                        *)
InitManage ==
    /\ assignments = { [id |-> "a1", createdBy |-> "u1"] }
    /\ cloudFiles = {NewPublicId}
    /\ pc = "done"
    /\ req = ManagedRequest
    /\ cloudinaryResult = [isNull |-> FALSE, secure_url |-> NewSecureUrl,
                           public_id |-> NewPublicId, resource_type |-> "raw"]
    /\ submissionContent = req.file.text
    /\ classifierOutcome =
           [kind |-> "text",
            text |-> [word |-> "HIGHLY_RELEVANT", pad |-> FALSE, upper |-> TRUE]]
    /\ relevance = "HIGHLY_RELEVANT"
    /\ aiReply = [kind |-> "json", score |-> JNum(85), confidence |-> JStr("Medium")]
    /\ aiPending = FALSE
    /\ plagiarismPending = FALSE
    /\ aiCheckResultData = [isNull |-> FALSE, score |-> 85, confidence |-> "Medium"]
    /\ plagiarismResultData = PlagiarismResultOf(0)
    /\ studentName = NullName
    /\ error = NoError
    /\ response = [status |-> 201, message |-> <<>>]
    /\ submissions = { NewSubmission(NewId, SubmissionFields) }
    /\ trace = << Ev("findAssignment", "a1"), Ev("upload", NewPublicId),
                  Ev("extract", None), Ev("classify", None),
                  Ev("performAICheck", None), Ev("performPlagiarismCheck", None),
                  Ev("aiCheckSettled", None), Ev("plagiarismSettled", None),
                  Ev("userLookup", "u2"), Ev("save", NewId),
                  Ev("readBack", NewId), Responded(201) >>
    /\ lastOp = NoOp
    /\ FeedbackLocalsIdle
    /\ fpc = "idle"
    /\ aiText = <<>>
    /\ originalContent = <<>>
    /\ rawComments = <<>>
    /\ aiDoc = NoDoc

PutAny ==
    \E u \in Users, id \in SubmissionIds \cup {"bad"}, b \in UpdateBodies,
       f \in {"none", "find", "save", "readBack"} : PutSubmission(u, id, b, f)

DeleteAny ==
    \E u \in Users, id \in SubmissionIds \cup {"bad"},
       f \in {"none", "find", "destroy", "deleteOne"} : DeleteSubmission(u, id, f)

DeleteAssignmentAny ==
    \E u \in Users, id \in AssignmentIds \cup {"bad"}, f \in {"none", "find"} :
        DeleteAssignment(u, id, f)

NextManage ==
    \/ PutAny
    \/ DeleteAny
    \/ DeleteAssignmentAny

SpecManage == InitManage /\ [][NextManage]_vars

----------------------------------------------------------------------------
(* Observations on a finished call                                         *)

Done == pc = "done"

Events(op) == { i \in DOMAIN trace : trace[i].op = op }
Called(op) == Events(op) # {}
Failed(op) == \E i \in Events(op) : ~trace[i].ok

\* the provider stored the file and handed back its public id
HandleReturned == ~cloudinaryResult.isNull /\ cloudinaryResult.public_id # None
\* the provider stored the file and handed back a complete result
UploadSucceeded ==
    /\ ~cloudinaryResult.isNull
    /\ cloudinaryResult.secure_url # None
    /\ cloudinaryResult.public_id # None

\* destroy calls made on the handle of this call
DestroysOnHandle ==
    { i \in Events("destroy") : trace[i].id = cloudinaryResult.public_id }

Saved == \E d \in submissions : d._id = NewId
SavedDoc == CHOOSE d \in submissions : d._id = NewId

Persisted == response.status = 201

RejectionSent ==
    /\ response.status = 400
    /\ StartsWith(response.message, <<"Submission rejected:">>)

ScoringCalled == Called("performAICheck") \/ Called("performPlagiarismCheck")

----------------------------------------------------------------------------
(* C1: in a submit call whose upload succeeded and whose verdict is        *)
(* OFF_TOPIC, the storage delete is invoked on the uploaded handle exactly *)
(* once and no Submission is saved.                                        *)
C1_OffTopicDeletesExactlyOnce ==
    (Done /\ UploadSucceeded /\ relevance = "OFF_TOPIC")
        => (Cardinality(DestroysOnHandle) = 1 /\ ~Saved /\ ~Called("save"))

(* C2: whenever the upload returned a handle and the call does not end in  *)
(* Persisted, the delete is invoked on that handle before the response.    *)
C2_CleanupBeforeErrorResponse ==
    (Done /\ HandleReturned /\ ~Persisted)
        => \E i \in DestroysOnHandle : \E j \in Events("respond") :
              /\ i < j
              /\ j = Len(trace)
              /\ trace[j].status = response.status

C2_Witness ==
    /\ Done /\ HandleReturned /\ Failed("save")
    /\ response.status = 500
    /\ Cardinality(DestroysOnHandle) = 1

LaterStepFailed ==
    Failed("userLookup") \/ Failed("save") \/ Failed("readBack")

C4_DeleteFailureDoesNotMaskRejection ==
    (Done /\ relevance = "OFF_TOPIC" /\ Failed("destroy")) => RejectionSent

\* Assignment.findById answered null
LookupReturnedNull ==
    \E i \in Events("findAssignment") :
        trace[i].ok /\ ~(\E a \in assignments : a.id = trace[i].id)

BadReference ==
    \/ req.assignmentId = None
    \/ req.assignmentId \notin AssignmentIds
    \/ LookupReturnedNull

(* C5: when the assignment reference is missing, malformed or resolves to  *)
(* no assignment, the call answers 4xx (400 invalid id, 404 not found) and *)
(* makes no upload, no storage delete and no save.                         *)
C5_BadReferenceHasNoSideEffect ==
    (Done /\ BadReference)
        => /\ response.status \in {400, 404}
           /\ (req.hasFile /\ req.assignmentId \notin AssignmentIds)
                 => (response.status = 400 /\ response.message = MsgInvalidId)
           /\ LookupReturnedNull
                 => (response.status = 404 /\ response.message = MsgNotFound)
           /\ ~Called("upload") /\ ~Called("destroy") /\ ~Called("save")
           /\ cloudFiles = {} /\ submissions = {}

C5_Witness ==
    /\ Done /\ LookupReturnedNull /\ req.assignmentId = "a2"
    /\ response.status = 404

(* C6: when the provider's upload fails, the call answers 500, never       *)
(* invokes the storage delete, makes no extraction, relevance or scoring   *)
(* call, and saves no Submission.                                          *)
C6_UploadFailureNothingToCompensate ==
    (Done /\ Failed("upload"))
        => /\ response.status = 500
           /\ ~Called("destroy")
           /\ ~Called("extract") /\ ~Called("classify") /\ ~ScoringCalled
           /\ ~Called("save") /\ ~Saved

C6_Witness ==
    /\ Done /\ Failed("upload")
    /\ response.status = 500 /\ error.message = MsgUploadFailed

PastRelevance ==
    Called("extract") /\ pc # "classify"

(* C8 as stated: the classifier is called iff the extracted text has at    *)
(* least 20 characters; under 20 it is never called and the verdict is     *)
(* SOMEWHAT_RELEVANT.                                                      *)
C8_ClassifierIffTwentyChars ==
    PastRelevance
        => /\ Called("classify") <=> (Length(submissionContent) >= RelevanceMinLen)
           /\ Length(submissionContent) < RelevanceMinLen
                => (~Called("classify") /\ relevance = "SOMEWHAT_RELEVANT")

(* C8, amended: the classifier is called iff the extracted text, with its  *)
(* leading and trailing whitespace removed, has at least 20 characters;    *)
(* for every text shorter than that it is never called and the verdict is  *)
(* SOMEWHAT_RELEVANT.                                                      *)
C8_ClassifierIffTwentyTrimmedChars ==
    PastRelevance
        => /\ Called("classify")
                <=> (submissionContent.core >= RelevanceMinLen)
           /\ Length(submissionContent) < RelevanceMinLen
                => (~Called("classify") /\ relevance = "SOMEWHAT_RELEVANT")
           /\ submissionContent.core < RelevanceMinLen
                => (classifierOutcome = NotCalled /\ relevance = "SOMEWHAT_RELEVANT")

C8_Witness ==
    /\ Done /\ Called("extract")
    /\ Length(submissionContent) >= RelevanceMinLen
    /\ submissionContent.core < RelevanceMinLen
    /\ ~Called("classify")
    /\ relevance = "SOMEWHAT_RELEVANT"

\* the handler took its off-topic branch (lines 218-223)
RejectionPathTaken == error.message \in {MsgRejected, MsgDestroyFailed}

ExactTokens == { Literal(w) : w \in RelevanceTokens }

(* C9 as stated: when the classifier call throws or returns any text other *)
(* than exactly one of the three tokens the verdict is SOMEWHAT_RELEVANT,  *)
(* and the rejection path is taken only when it returned exactly the       *)
(* OFF_TOPIC token.                                                        *)
C9_FailOpenOnExactTokens ==
    (PastRelevance /\ Called("classify"))
        => /\ (classifierOutcome.kind # "text" \/ classifierOutcome.text \notin ExactTokens)
                => relevance = "SOMEWHAT_RELEVANT"
           /\ RejectionPathTaken
                => (classifierOutcome.kind = "text"
                    /\ classifierOutcome.text = Literal("OFF_TOPIC"))

\* the reply with surrounding whitespace removed, in upper case
Normalized(outcome) == [outcome.text EXCEPT !.pad = FALSE, !.upper = TRUE]

(* C9, amended: the reply is compared after trimming whitespace and        *)
(* upper-casing.  When the classifier call throws, has no content, or      *)
(* returns a text that is then none of the three tokens, the verdict is    *)
(* SOMEWHAT_RELEVANT and the submission proceeds; the rejection path is    *)
(* taken only when the reply is then OFF_TOPIC.                            *)
C9_FailOpenOnNormalizedTokens ==
    (PastRelevance /\ Called("classify"))
        => /\ (classifierOutcome.kind # "text"
                \/ Normalized(classifierOutcome) \notin ExactTokens)
                => /\ relevance = "SOMEWHAT_RELEVANT"
                   /\ ~RejectionPathTaken
                   /\ (Done /\ ~LaterStepFailed) => Persisted
           /\ (relevance = "OFF_TOPIC" \/ RejectionPathTaken \/ RejectionSent)
                => (classifierOutcome.kind = "text"
                    /\ Normalized(classifierOutcome) = Literal("OFF_TOPIC"))

C9_Witness ==
    /\ Done /\ Called("classify") /\ classifierOutcome.kind = "throw"
    /\ relevance = "SOMEWHAT_RELEVANT"
    /\ Persisted

\* the call was not rejected and is past its scoring step
PastScoring ==
    /\ Called("extract")
    /\ relevance # "OFF_TOPIC"
    /\ pc \in {"resolveName", "save", "readBack", "catch", "done"}

AICheckRan    == Called("aiCheckSettled")
PlagiarismRan == Called("plagiarismSettled")

(* C10 as stated: in a call that is not rejected both checks run when the  *)
(* extracted text has at least 50 characters, and both are skipped with    *)
(* null results when it has fewer; never one without the other.            *)
C10_BothChecksIffFiftyChars ==
    PastScoring
        => /\ Length(submissionContent) >= ScoringMinLen
                => (AICheckRan /\ PlagiarismRan)
           /\ Length(submissionContent) < ScoringMinLen
                => /\ ~AICheckRan /\ ~PlagiarismRan
                   /\ aiCheckResultData.isNull /\ plagiarismResultData.isNull
           /\ AICheckRan <=> PlagiarismRan

(* C10, amended: in a call that is not rejected both checks run when the   *)
(* extracted text, with its leading and trailing whitespace removed, has   *)
(* at least 50 characters, and both are skipped with null results when it  *)
(* has fewer; never one without the other.                                 *)
C10_BothChecksIffFiftyTrimmedChars ==
    PastScoring
        => /\ submissionContent.core >= ScoringMinLen
                => /\ AICheckRan /\ PlagiarismRan
                   /\ Called("performAICheck") /\ Called("performPlagiarismCheck")
                   /\ ~plagiarismResultData.isNull
           /\ submissionContent.core < ScoringMinLen
                => /\ ~AICheckRan /\ ~PlagiarismRan
                   /\ aiReply = AINotCalled
                   /\ aiCheckResultData.isNull /\ plagiarismResultData.isNull
           /\ AICheckRan <=> PlagiarismRan

C10_Witness ==
    /\ Done /\ PastScoring /\ Persisted
    /\ Length(submissionContent) >= ScoringMinLen
    /\ submissionContent.core < ScoringMinLen
    /\ ~AICheckRan /\ ~PlagiarismRan
    /\ SavedDoc.aiCheckerResults.isNull /\ SavedDoc.plagiarismResults.isNull

\* the scoring call failed: threw, no content, not JSON, or wrong types
AICallFailed ==
    \/ aiReply.kind \in {"throw", "nocontent", "badjson"}
    \/ /\ aiReply.kind = "json"
       /\ (aiReply.score.type # "number" \/ aiReply.confidence.type # "string")

C12_StoredAIScoreInRange ==
    \A d \in submissions :
        ~d.aiCheckerResults.isNull
            => (d.aiCheckerResults.score >= 0 /\ d.aiCheckerResults.score <= 100)

\* every call of kind a precedes every call of kind b
Precedes(a, b) == \A i \in Events(a) : \A j \in Events(b) : i < j

(* C13: in one submit call the upload precedes the extraction, the         *)
(* extraction the classification, the verdict any scoring call, and both   *)
(* checks have settled before the save; with verdict OFF_TOPIC there is    *)
(* no scoring call and no save.                                            *)
C13_StepsAreOrdered ==
    /\ Called("extract") => (Called("upload") /\ ~Failed("upload"))
    /\ Called("classify") => Called("extract")
    /\ ScoringCalled => (Called("extract") /\ pc # "classify" /\ pc # "gate")
    /\ Called("save") => Called("extract")
    /\ Precedes("upload", "extract")
    /\ Precedes("extract", "classify")
    /\ Precedes("extract", "performAICheck")
    /\ Precedes("classify", "performAICheck")
    /\ Precedes("classify", "performPlagiarismCheck")
    /\ Precedes("classify", "save")
    /\ Precedes("aiCheckSettled", "save")
    /\ Precedes("plagiarismSettled", "save")
    /\ Called("save")
         => /\ Called("performAICheck") => AICheckRan
            /\ Called("performPlagiarismCheck") => PlagiarismRan
            /\ ~aiPending /\ ~plagiarismPending
    /\ relevance = "OFF_TOPIC" => (~ScoringCalled /\ ~Called("save") /\ ~Saved)

C13_Witness ==
    /\ Done /\ Persisted
    /\ Called("classify") /\ AICheckRan /\ PlagiarismRan
    /\ \E i \in Events("plagiarismSettled") : \E j \in Events("aiCheckSettled") : i < j

(* C15: every Submission persisted by submit retains the storage handle of *)
(* the upload of the same call: public id, resource type, URL, filename.   *)
C15_SavedDocKeepsHandle ==
    \A d \in submissions :
        d._id = NewId
            => /\ d.fileUrl = cloudinaryResult.secure_url
               /\ d.fileName = req.file.ext
               /\ "cloudinaryPublicId" \in DOMAIN d
               /\ "cloudinaryResourceType" \in DOMAIN d
               /\ d.cloudinaryPublicId = cloudinaryResult.public_id
               /\ d.cloudinaryResourceType = cloudinaryResult.resource_type

(* C14 as stated: the stored display name is the manual name whenever a    *)
(* non-empty manual name is supplied, and the profile is then not read;    *)
(* otherwise it is the profile name, or null when there is no profile.     *)
C14_StoredNameIsManualName ==
    Saved =>
        IF NameGiven(req.studentNameManual)
        THEN /\ SavedDoc.studentName = req.studentNameManual
             /\ ~Called("userLookup")
        ELSE /\ Called("userLookup")
             /\ SavedDoc.studentName =
                    IF req.user \in DOMAIN ProfileName
                    THEN ProfileName[req.user] ELSE NullName

(* C14, amended: the stored display name is the manual name with its       *)
(* surrounding whitespace removed whenever a non-empty manual name is      *)
(* supplied (the empty string when it is only whitespace), and the profile *)
(* is then not read; otherwise it is the profile name, or null when there  *)
(* is no profile.                                                          *)
C14_StoredNameIsTrimmedManualName ==
    Saved =>
        IF NameGiven(req.studentNameManual)
        THEN /\ SavedDoc.studentName = Name(0, req.studentNameManual.word)
             /\ ~Called("userLookup")
        ELSE /\ Called("userLookup") /\ ~Failed("userLookup")
             /\ SavedDoc.studentName =
                    IF req.user \in DOMAIN ProfileName
                    THEN ProfileName[req.user] ELSE NullName

C14_Witness ==
    /\ Saved /\ Done
    /\ req.studentNameManual = Name(MaxPad, "Manual")
    /\ req.user \in DOMAIN ProfileName
    /\ SavedDoc.studentName = Name(0, "Manual")
    /\ ~Called("userLookup")

----------------------------------------------------------------------------
(* The feedback parser and the comment locator                             *)

Parsed == fpc \in {"parsed", "locateStart", "locating", "located"}
Located == fpc = "located"

\* what the claim says the parse of the response written from d returns
ExpectedFeedback(d) ==
    [strengths |-> JoinLines(d.strengths),
     improvements |-> JoinLines(d.improvements),
     actionItems |-> JoinLines(d.actionItems),
     rawInlineComments |->
        [i \in 1..Len(d.blocks) |->
            [quote |-> d.blocks[i].quote, comment |-> d.blocks[i].comment]]]

(* C16: parseAIResponse on a response that follows the expected structure  *)
(* returns each section's bullet texts, markers stripped and joined by     *)
(* newlines, and exactly the N quote/comment pairs, surrounding double     *)
(* quotes removed, in input order.                                         *)
C16_WellFormedResponseRoundTrips ==
    Parsed => feedback = ExpectedFeedback(aiDoc)

C16_Witness ==
    /\ fpc = "parsed"
    /\ Len(aiDoc.strengths) = 2 /\ aiDoc.strengths[1] # aiDoc.strengths[2]
    /\ Len(aiDoc.blocks) = 2
    /\ aiDoc.blocks[1].quote # aiDoc.blocks[2].quote
    /\ aiDoc.blocks[1].quoted /\ ~aiDoc.blocks[2].quoted
    /\ Len(feedback.rawInlineComments) = 2
    /\ feedback.rawInlineComments[1].quote = aiDoc.blocks[1].quote
    /\ \E i \in 1..Len(feedback.strengths) : feedback.strengths[i] = NL

\* the places at or after cursor where quote occurs in content (0-based)
Occurrences(content, quote, cursor) ==
    { i \in cursor..(Len(content) - Len(quote)) :
        SubSeq(content, i + 1, i + Len(quote)) = quote }

Least(S) == CHOOSE i \in S : \A j \in S : i <= j

(* C17: locateInlineComments starts its cursor at 0 and takes the pairs in *)
(* order; for a pair with non-empty quote and comment, if the quote occurs *)
(* at or after the cursor it emits {first occurrence, first occurrence +   *)
(* length of the quote, comment} and moves the cursor to that end; if not, *)
(* it emits nothing, goes on to the next pair and leaves the cursor.       *)
C17_LocatorStep ==
    [][ /\ (fpc = "locateStart" /\ fpc' = "locating")
            => (searchStartIndex' = 0 /\ pairIdx' = 1 /\ locatedComments' = <<>>)
        /\ (fpc = "locating" /\ pairIdx <= Len(rawComments))
            => LET p == rawComments[pairIdx]
                   occ == Occurrences(originalContent, p.quote, searchStartIndex)
               IN /\ pairIdx' = pairIdx + 1
                  /\ fpc' = "locating"
                  /\ (p.quote # <<>> /\ p.comment # <<>>)
                       => IF occ # {}
                          THEN /\ locatedComments' =
                                    Append(locatedComments,
                                           [startIndex |-> Least(occ),
                                            endIndex |-> Least(occ) + Len(p.quote),
                                            text |-> p.comment])
                               /\ searchStartIndex' = Least(occ) + Len(p.quote)
                          ELSE /\ locatedComments' = locatedComments
                               /\ searchStartIndex' = searchStartIndex
      ]_vars

\* the second pair's quote occurs only before the cursor: it is dropped
C17_Witness ==
    /\ Located
    /\ Len(rawComments) = 2 /\ Len(locatedComments) = 1
    /\ \A i \in 1..2 : rawComments[i].quote # <<>> /\ rawComments[i].comment # <<>>
    /\ locatedComments[1].text = rawComments[1].comment
    /\ locatedComments[1].startIndex > 0
    /\ searchStartIndex = locatedComments[1].endIndex
    /\ Occurrences(originalContent, rawComments[2].quote, 0) # {}
    /\ Occurrences(originalContent, rawComments[2].quote, searchStartIndex) = {}

(* C18: the located comments are monotonic and do not overlap: of two      *)
(* consecutive entries a, b: a.endIndex <= b.startIndex and                *)
(* a.startIndex < b.startIndex.                                            *)
C18_LocatedCommentsDoNotOverlap ==
    \A i \in 1..(Len(locatedComments) - 1) :
        /\ locatedComments[i].endIndex <= locatedComments[i + 1].startIndex
        /\ locatedComments[i].startIndex < locatedComments[i + 1].startIndex

\* two pairs with the same quote resolve to two occurrences
C18_Witness ==
    /\ Located
    /\ Len(rawComments) = 2 /\ Len(locatedComments) = 2
    /\ rawComments[1].quote = rawComments[2].quote
    /\ locatedComments[1].startIndex < locatedComments[2].startIndex

\* the strictly increasing maps of 1..n into 1..m
Increasing(n, m) ==
    { f \in [1..n -> 1..m] : \A i \in 1..(n - 1) : f[i] < f[i + 1] }

(* C19: every located comment has 0 <= startIndex <= endIndex <=           *)
(* length of the text, the text between its offsets is the quote of the    *)
(* pair it came from, and the output follows the order of the input pairs. *)
C19_OffsetsAreCorrect ==
    /\ \A k \in 1..Len(locatedComments) :
          /\ 0 <= locatedComments[k].startIndex
          /\ locatedComments[k].startIndex <= locatedComments[k].endIndex
          /\ locatedComments[k].endIndex <= Len(originalContent)
    /\ \E f \in Increasing(Len(locatedComments), Len(rawComments)) :
          \A k \in 1..Len(locatedComments) :
              /\ f[k] < pairIdx
              /\ locatedComments[k].text = rawComments[f[k]].comment
              /\ SubSeq(originalContent, locatedComments[k].startIndex + 1,
                        locatedComments[k].endIndex) = rawComments[f[k]].quote

\* pairs out of textual order: only the first is located
C19_Witness ==
    /\ Located
    /\ Len(rawComments) = 2 /\ Len(locatedComments) = 1
    /\ rawComments[1].quote # rawComments[2].quote
    /\ rawComments[1].comment # rawComments[2].comment
    /\ rawComments[2].comment # <<>>
    /\ locatedComments[1].text = rawComments[1].comment
    /\ locatedComments[1].endIndex = Len(originalContent)
    /\ Occurrences(originalContent, rawComments[2].quote, 0) # {}

(* C20: parsing and locating a second time on the same two inputs returns  *)
(* the same feedback and the same located comments as the first time, and  *)
(* no step changes the two inputs.                                         *)
C20_RerunIsIdentical ==
    [][ /\ aiText' = aiText
        /\ originalContent' = originalContent
        /\ (fpc' = "located" /\ rerun')
             => /\ feedback' = firstRun'.feedback
                /\ locatedComments' = firstRun'.locatedComments
      ]_vars

C20_Witness ==
    /\ Located /\ rerun
    /\ Len(locatedComments) = 2
    /\ firstRun.locatedComments = locatedComments
    /\ firstRun.feedback = feedback
    /\ feedback.strengths # <<>>
    /\ searchStartIndex > 0

(* C26: after a submit call has finished, if the Submission it created     *)
(* exists, no storage delete was invoked on that record's file during the  *)
(* call, and the file is still in the storage.                             *)
C26_SavedRecordKeepsItsFile ==
    (Done /\ Saved)
        => /\ DestroysOnHandle = {}
           /\ cloudinaryResult.public_id \in cloudFiles



----------------------------------------------------------------------------
(* Updating and deleting records                                           *)

\* the last request was kind, on the record of the submit call, answered st
Answered(kind, st) ==
    lastOp.kind = kind /\ lastOp.id = NewId /\ lastOp.status = st

(* C25: once DELETE /:submissionId by the creator of the parent assignment *)
(* has returned success for the record the submit call created, the        *)
(* storage delete has been invoked on the handle uploaded for that record, *)
(* the file is gone and the record no longer exists.                       *)
C25_DeleteRemovesStoredFile ==
    Answered("delete", 200)
        => /\ DestroysOnHandle # {}
           /\ cloudinaryResult.public_id \notin cloudFiles
           /\ ~Saved

(* C27: after any sequence of submit and PUT, every Submission whose score *)
(* is not null has status 'graded'.                                        *)
C27_ScoredIsGraded ==
    \A d \in submissions : d.score.type # "null" => d.status = "graded"

(* C28: every persisted Submission's assignmentId refers to an existing    *)
(* Assignment.                                                             *)
C28_SubmissionHasAssignment ==
    \A d \in submissions : \E a \in assignments : a.id = d.assignmentId

\* the fields a PUT may not touch
ProtectedPaths ==
    { "_id", "assignmentId", "submittedBy", "fileUrl", "fileName",
      "aiCheckerResults", "plagiarismResults" }

\* this step answers a PUT or DELETE on an existing record by a user who is
\* not the creator of its parent assignment
RefusedStep ==
    /\ lastOp'.kind \in {"put", "delete"}
    /\ \E d \in Found(lastOp'.id) : ~Permitted(d, lastOp'.user)

NothingChanged == UNCHANGED <<submissions, cloudFiles, trace, assignments>>

\* a PUT step leaves every record in place with its protected fields
ProtectedKept ==
    lastOp'.kind = "put"
        => /\ cloudFiles' = cloudFiles
           /\ { d._id : d \in submissions' } = { d._id : d \in submissions }
           /\ \A d \in submissions : \E e \in submissions' :
                \A f \in ProtectedPaths : e[f] = d[f]

(* C30 as stated: PUT and DELETE by a user who is not the creator of the   *)
(* parent assignment return 403 and change nothing (the record is as it    *)
(* was, no storage delete is invoked); a permitted PUT leaves assignmentId,*)
(* submittedBy, fileUrl, fileName and both check results unchanged.        *)
C30_RefusedWith403 ==
    [][ /\ RefusedStep => (lastOp'.status = 403 /\ NothingChanged)
        /\ ProtectedKept ]_vars

(* C30, amended: such a request returns 403, or 500 when the lookup of the *)
(* record or of its assignment throws, and in both cases changes nothing;  *)
(* a PUT leaves the protected fields of every record unchanged.            *)
C30_RefusedChangesNothing ==
    [][ /\ RefusedStep => (lastOp'.status \in {403, 500} /\ NothingChanged)
        /\ ProtectedKept ]_vars

\* a permitted PUT has renamed and commented the record, and a later DELETE
\* by the submitting user, who did not create the assignment, was refused
C30_Witness ==
    /\ Answered("delete", 403)
    /\ lastOp.user = "u2"
    /\ \E d \in submissions :
          /\ d._id = NewId
          /\ d.feedback = "Good"
          /\ d.studentName = Name(0, "Renamed")
          /\ d.assignmentId = "a1"


----------------------------------------------------------------------------
(* parseAIResponse on any text                                             *)

\* this step reads a line of the input
LineRead == fpc = "parsing" /\ lineIdx' = lineIdx + 1

\* this step reads line l
ReadIs(l) == LineRead /\ lines[lineIdx] = l

\* the working pair has a quote and a comment
NonEmptyPair(c) == ~c.isNull /\ c.quote # <<>> /\ c.comment # <<>>

\* rawInlineComments after the working pair was pushed if it is complete
PushedIfComplete ==
    IF NonEmptyPair(currentComment)
    THEN Append(feedback.rawInlineComments,
                [quote |-> currentComment.quote, comment |-> currentComment.comment])
    ELSE feedback.rawInlineComments

(* C21: a header line, in upper or lower case, moves the parser to its     *)
(* section from any state and adds nothing to the output; a line read      *)
(* before the first header changes nothing.                                *)
C21_HeaderSwitchesSection ==
    [][ /\ ReadIs(InlineHeaderLine)
            => currentSection' = "inline" /\ UNCHANGED <<feedback, currentComment>>
        /\ ReadIs(StrengthsHeaderLine)
            => currentSection' = "strengths" /\ UNCHANGED <<feedback, currentComment>>
        /\ ( /\ LineRead
             /\ currentSection = None
             /\ lines[lineIdx] \notin {InlineHeaderLine, StrengthsHeaderLine} )
            => UNCHANGED <<currentSection, feedback, currentComment>> ]_vars

\* a text line before the first header was ignored, one in the strengths
\* section was kept, and the inline header has just been read
C21_Witness ==
    /\ fpc = "parsing"
    /\ lineIdx = 5
    /\ lines[1] = TextLine
    /\ lines[4] = InlineHeaderLine
    /\ currentSection = "inline"
    /\ feedback.strengths = TextLine

(* C22: every element of rawInlineComments has, at every point, a          *)
(* non-empty quote and a non-empty comment; a '---' line read in the       *)
(* inline section pushes the working pair only if both are non-empty and   *)
(* always resets the working pair.                                         *)
C22_SeparatorPushesCompletePairs ==
    /\ [](\A i \in 1..Len(feedback.rawInlineComments) :
              /\ feedback.rawInlineComments[i].quote # <<>>
              /\ feedback.rawInlineComments[i].comment # <<>>)
    /\ [][ (ReadIs(Separator) /\ currentSection = "inline")
              => /\ feedback'.rawInlineComments = PushedIfComplete
                 /\ currentComment' = NoComment ]_vars

\* a separator read after a quote and its comment has pushed the pair
C22_Witness ==
    /\ fpc = "parsing"
    /\ lineIdx = 5
    /\ lines[2] = QuoteLine
    /\ lines[4] = Separator
    /\ Len(feedback.rawInlineComments) = 1
    /\ currentComment = NoComment

(* C23: a QUOTE line read in the inline section first pushes the working   *)
(* pair if it is complete, then starts a new pair with that quote and an   *)
(* empty comment; a pair with a quote and no comment is dropped.           *)
C23_QuoteStartsNewPair ==
    [][ /\ (ReadIs(QuoteLine) /\ currentSection = "inline")
            => /\ feedback'.rawInlineComments = PushedIfComplete
               /\ currentComment' =
                     [isNull |-> FALSE, quote |-> <<"a">>, comment |-> <<>>]
        /\ (ReadIs(BlankQuoteLine) /\ currentSection = "inline")
            => /\ feedback'.rawInlineComments = PushedIfComplete
               /\ currentComment' =
                     [isNull |-> FALSE, quote |-> <<>>, comment |-> <<>>] ]_vars

\* two blocks with no separator between them are returned in their order
C23_Witness ==
    /\ fpc = "parsed"
    /\ \A i \in 1..Len(lines) : lines[i] # Separator
    /\ feedback.rawInlineComments =
          << [quote |-> <<"a">>, comment |-> <<"c">>],
             [quote |-> <<"a">>, comment |-> <<"x">>] >>

\* the QUOTE lines of the input
QuoteLines == { i \in 1..Len(lines) : lines[i] = QuoteLine }

(* C24: at the end of the input the pending pair is pushed exactly when it *)
(* is complete and the current section is the inline section; the result   *)
(* never holds more pairs than the input has QUOTE lines.                  *)
C24_EndFlush ==
    /\ [][ (fpc = "parsing" /\ fpc' = "parsed")
              => feedback'.rawInlineComments =
                    IF currentSection = "inline" THEN PushedIfComplete
                    ELSE feedback.rawInlineComments ]_vars
    /\ [](Len(feedback.rawInlineComments) <= Cardinality(QuoteLines))

\* the last block, with no separator after it, was pushed at the end
C24_Witness ==
    /\ fpc = "parsed"
    /\ lines[Len(lines)] = CommentLine
    /\ Len(feedback.rawInlineComments) = 2
    /\ feedback.rawInlineComments[2] =
          [quote |-> currentComment.quote, comment |-> currentComment.comment]

(* C29: a pair that became complete in the inline section is in            *)
(* rawInlineComments when the parser returns, whatever lines followed it.  *)
C29_CompletePairIsReturned ==
    (fpc = "parsed" /\ NonEmptyPair(currentComment))
        => /\ feedback.rawInlineComments # <<>>
           /\ feedback.rawInlineComments[Len(feedback.rawInlineComments)] =
                 [quote |-> currentComment.quote,
                  comment |-> currentComment.comment]

====
